---- MODULE Spec2Model ----
(***************************************************************************)
(* A model of the Gen3 metadata client (gen3_metadata):                    *)
(*   - src/src/gen3_metadata/gen3_metadata_parser.py  (current variant)    *)
(*   - src/src/gen3_metadata/parser.py                (older variant)      *)
(*                                                                         *)
(* Text the code manipulates (issuers, URLs, fetch keys, tokens) is a      *)
(* sequence of one-character strings.  A Python dict is a sequence of      *)
(* [k, v] pairs with distinct keys, in insertion order.  A JSON value is a *)
(* tagged record [t, v].                                                   *)
(***************************************************************************)
EXTENDS Integers, Sequences, FiniteSets, TLC

VARIABLES variant, headers, data_store, data_store_pd, last

vars == <<variant, headers, data_store, data_store_pd, last>>

(***************************************************************************)
(* Bounds of the model.                                                    *)
(***************************************************************************)
NumTokens == 2    \* distinct access tokens the token endpoint may hand out
MaxSegs == 3      \* issuer claims are built from at most MaxSegs segments
MaxToks == 5      \* credential files hold at most MaxToks lexemes

(***************************************************************************)
(* Results of calls: a returned value or a raised exception.               *)
(***************************************************************************)
NoVal == [t |-> "none", v |-> 0]

Ok(v) == [exc |-> "none", val |-> v]

Raise(e) == [exc |-> e, val |-> NoVal]

(***************************************************************************)
(* Python dict: insertion-ordered, keys unique.                            *)
(***************************************************************************)
EmptyDict == <<>>

DictHas(d, k) == \E i \in 1..Len(d) : d[i].k = k

DictIndex(d, k) == CHOOSE i \in 1..Len(d) : d[i].k = k

DictGet(d, k) == d[DictIndex(d, k)].v

\* d[k] = v : an existing key keeps its position and takes the new value,
\* a new key is appended.
DictSet(d, k, v) ==
    IF DictHas(d, k)
    THEN [d EXCEPT ![DictIndex(d, k)] = [k |-> k, v |-> v]]
    ELSE Append(d, [k |-> k, v |-> v])

DictKeys(d) == {d[i].k : i \in 1..Len(d)}

(***************************************************************************)
(* JSON values.                                                            *)
(***************************************************************************)
JStr(s) == [t |-> "str", v |-> s]

JLit(x) == [t |-> "lit", v |-> x]

JObj(d) == [t |-> "obj", v |-> d]

JList(l) == [t |-> "list", v |-> l]

(***************************************************************************)
(* Text.                                                                   *)
(***************************************************************************)
UserSuffix == <<"/", "u", "s", "e", "r">>

EndsWith(s, suf) ==
    /\ Len(s) >= Len(suf)
    /\ SubSeq(s, Len(s) - Len(suf) + 1, Len(s)) = suf

\* str.removesuffix: drops one trailing occurrence of a non-empty suffix.
removesuffix(s, suf) ==
    IF suf # <<>> /\ EndsWith(s, suf)
    THEN SubSeq(s, 1, Len(s) - Len(suf))
    ELSE s

(***************************************************************************)
(* A string value of a credential file.  The compact JWT encoding is not   *)
(* modelled character by character: a string is its label together with   *)
(* what decoding it as a JWT yields (wf: it is a well-formed JWT; claims:  *)
(* the dict of its payload).  The signature takes no part, as the code     *)
(* decodes with verify_signature = False.                                  *)
(***************************************************************************)
Text(s) == [wf |-> FALSE, claims |-> EmptyDict, txt |-> s]

Jwt(claims) == [wf |-> TRUE, claims |-> claims, txt |-> "jwt"]

JwtIss(iss) == Jwt(<<[k |-> "iss", v |-> iss]>>)

JwtNoIss == Jwt(<<[k |-> "sub", v |-> <<"2", "1">>]>>)

\* jwt.decode(token, options={"verify_signature": False})
jwt_decode(tok) ==
    IF tok.t = "str" /\ tok.v.wf THEN Ok(tok.v.claims) ELSE Raise("DecodeError")

RECURSIVE StripEverySuffix(_)

\* A slip: every trailing "/user" is dropped, not one.
StripEverySuffix(iss) ==
    IF EndsWith(iss, UserSuffix)
    THEN StripEverySuffix(SubSeq(iss, 1, Len(iss) - Len(UserSuffix)))
    ELSE iss

\* _url_from_jwt(cred)
UrlFromJwtStrip(iss) == removesuffix(iss, UserSuffix)

url_from_jwt(cred) ==
    IF cred.t # "obj" THEN Raise("TypeError")
    ELSE IF ~DictHas(cred.v, "api_key") THEN Raise("KeyError")
    ELSE LET payload == jwt_decode(DictGet(cred.v, "api_key")) IN
         IF payload.exc # "none" THEN payload
         ELSE Ok(UrlFromJwtStrip(IF DictHas(payload.val, "iss")
                                 THEN DictGet(payload.val, "iss")
                                 ELSE <<>>))

(***************************************************************************)
(* Credential file content: a sequence of lexemes separated by white       *)
(* space.  Lexeme kinds:                                                   *)
(*   lb rb colon comma : the punctuation { } : ,                           *)
(*   str  : a double-quoted string                                         *)
(*   sq   : a single-quoted string (never valid JSON)                      *)
(*   word : unquoted text of word characters that is no JSON literal       *)
(*   lit  : an unquoted JSON literal of word characters (123, true)        *)
(*   bare : unquoted text of the characters [A-Za-z0-9._:@/-] that holds   *)
(*          a non-word character (a bare JWT, a bare URL)                  *)
(***************************************************************************)
Lex(t, v) == [t |-> t, v |-> v]

LB == Lex("lb", Text("{"))

RB == Lex("rb", Text("}"))

COLON == Lex("colon", Text(":"))

COMMA == Lex("comma", Text(","))

HasQuote(content) == \E i \in 1..Len(content) : content[i].t \in {"str", "sq"}

(***************************************************************************)
(* json.loads over lexemes: value ::= str | lit | { } | { members },       *)
(* members ::= str : value (, str : value)*.  A repeated key keeps its     *)
(* first position and takes its last value, as dict construction does.     *)
(***************************************************************************)
ParseFail == [ok |-> FALSE, val |-> NoVal, next |-> 0]

ParseOk(v, n) == [ok |-> TRUE, val |-> v, next |-> n]

RECURSIVE ParseValue(_, _), ParseMembers(_, _, _)

ParseValue(ts, i) ==
    IF i > Len(ts) THEN ParseFail
    ELSE CASE ts[i].t = "str" -> ParseOk(JStr(ts[i].v), i + 1)
           [] ts[i].t = "lit" -> ParseOk(JLit(ts[i].v), i + 1)
           [] ts[i].t = "lb" ->
                IF i + 1 <= Len(ts) /\ ts[i + 1].t = "rb"
                THEN ParseOk(JObj(EmptyDict), i + 2)
                ELSE ParseMembers(ts, i + 1, EmptyDict)
           [] OTHER -> ParseFail

ParseMembers(ts, i, acc) ==
    IF i + 1 > Len(ts) \/ ts[i].t # "str" \/ ts[i + 1].t # "colon"
    THEN ParseFail
    ELSE LET r == ParseValue(ts, i + 2) IN
         IF ~r.ok \/ r.next > Len(ts) THEN ParseFail
         ELSE LET acc2 == DictSet(acc, ts[i].v.txt, r.val) IN
              CASE ts[r.next].t = "rb" -> ParseOk(JObj(acc2), r.next + 1)
                [] ts[r.next].t = "comma" -> ParseMembers(ts, r.next + 1, acc2)
                [] OTHER -> ParseFail

json_loads(ts) ==
    LET r == ParseValue(ts, 1) IN
    IF r.ok /\ r.next = Len(ts) + 1 THEN Ok(r.val) ELSE Raise("JSONDecodeError")

(***************************************************************************)
(* _add_quotes_to_json: the two re.sub repairs, then a second parse.       *)
(***************************************************************************)
\* re.sub(r'([{,]\s*)(\w+)\s*:', r'\1"\2":', s): quote a key of word
\* characters that follows { or , and precedes a colon.
QuoteKeys(ts) ==
    [i \in 1..Len(ts) |->
        IF /\ ts[i].t \in {"word", "lit"}
           /\ i > 1 /\ ts[i - 1].t \in {"lb", "comma"}
           /\ i < Len(ts) /\ ts[i + 1].t = "colon"
        THEN Lex("str", ts[i].v)
        ELSE ts[i]]

\* re.sub(r':\s*([A-Za-z0-9._:@/-]+)(?=\s*[},])', r': "\1"', s): quote a
\* bare value that follows a colon and precedes } or , .
QuoteValues(ts) ==
    [i \in 1..Len(ts) |->
        IF /\ ts[i].t \in {"word", "lit", "bare"}
           /\ i > 1 /\ ts[i - 1].t = "colon"
           /\ i < Len(ts) /\ ts[i + 1].t \in {"rb", "comma"}
        THEN Lex("str", ts[i].v)
        ELSE ts[i]]

\* line 37: raise ValueError(f"Could not fix JSON: {e}")
AddQuotesFailure == Raise("ValueError")

add_quotes_to_json(input_str) ==
    LET first == json_loads(input_str) IN
    IF first.exc = "none" THEN first
    ELSE LET fixed == QuoteValues(QuoteKeys(input_str))
             second == json_loads(fixed) IN
         IF second.exc = "none" THEN second ELSE AddQuotesFailure

(***************************************************************************)
(* _load_api_key.  The file is the environment's: st is "missing" (open    *)
(* raises FileNotFoundError), "unreadable" (open or read raises another    *)
(* OSError) or "ok" with its content.  Every handler of the method         *)
(* reports and re-raises, so the exception that leaves is the one raised.  *)
(***************************************************************************)
File(st, content) == [st |-> st, content |-> content]

load_api_key(f) ==
    CASE f.st = "missing" -> Raise("FileNotFoundError")
      [] f.st = "unreadable" -> Raise("OSError")
      [] OTHER ->
           IF ~HasQuote(f.content)
           THEN add_quotes_to_json(f.content)
           ELSE json_loads(f.content)

\* Which handler of _load_api_key reports the failure (lines 57-66).
load_api_key_report(e) ==
    CASE e = "none" -> "none"
      [] e = "FileNotFoundError" -> "File not found"
      [] e = "JSONDecodeError" -> "JSON decode error"
      [] OTHER -> "An unexpected error occurred while loading API key"


(***************************************************************************)
(* HTTP: what requests.post / requests.get hand back.  kind "error" is a   *)
(* transport failure (requests raises ConnectionError); kind "response"    *)
(* carries a status and a body, parse saying whether the body is JSON.     *)
(***************************************************************************)
NoJson == [t |-> "none", v |-> 0]

Body(parse, json) == [parse |-> parse, json |-> json]

NoBody == Body(FALSE, NoJson)

Net(kind, status, body) == [kind |-> kind, status |-> status, body |-> body]

NetError == Net("error", 0, NoBody)

\* No request was made.
NoNet == Net("none", 0, NoBody)

\* Response.raise_for_status: raises HTTPError for 4xx and 5xx statuses.
raise_for_status(status) == 400 <= status /\ status < 600

\* Response.json()
response_json(body) ==
    IF body.parse THEN Ok(body.json) ELSE Raise("RequestsJSONDecodeError")

\* A slip: obj.get(name), which yields None for a missing field.
SubscriptGet(j, name) ==
    IF j.t # "obj" THEN Raise("TypeError")
    ELSE IF DictHas(j.v, name) THEN Ok(DictGet(j.v, name))
    ELSE Ok(JStr(<<"N", "o", "n", "e">>))

\* Python's obj[name] on a parsed JSON value.
Subscript(j, name) ==
    IF j.t # "obj" THEN Raise("TypeError")
    ELSE IF DictHas(j.v, name) THEN Ok(DictGet(j.v, name))
    ELSE Raise("KeyError")

(***************************************************************************)
(* Text constants of the client.                                           *)
(***************************************************************************)
BearerPrefix == <<"b", "e", "a", "r", "e", "r", " ">>

TokenPath ==
    <<"/", "u", "s", "e", "r", "/", "c", "r", "e", "d", "e", "n", "t", "i",
      "a", "l", "s", "/", "c", "d", "i", "s", "/", "a", "c", "c", "e", "s",
      "s", "_", "t", "o", "k", "e", "n">>

ApiV0 == <<"/", "a", "p", "i", "/", "v", "0", "/", "s", "u", "b", "m", "i",
           "s", "s", "i", "o", "n", "/">>

ExportPath == <<"/", "e", "x", "p", "o", "r", "t", "/", "?", "n", "o", "d",
                "e", "_", "l", "a", "b", "e", "l", "=">>

FormatJson == <<"&", "f", "o", "r", "m", "a", "t", "=", "j", "s", "o", "n">>

\* f"{api_url}/api/{api_version}/submission/{program_name}/{project_code}/
\*   export/?node_label={node_label}&format=json"   (api_version = "v0")
ExportUrl(api_url, a) ==
    api_url \o ApiV0 \o a[1] \o <<"/">> \o a[2] \o ExportPath \o a[3] \o FormatJson

\* key = f"{program_name}/{project_code}/{node_label}"
FetchKey(a) == a[1] \o <<"/">> \o a[2] \o <<"/">> \o a[3]

\* {'Authorization': f"bearer {access_token}"}
AuthHeader(access_token) ==
    <<[k |-> "Authorization", v |-> BearerPrefix \o access_token]>>

(***************************************************************************)
(* authenticate (current variant).  A step result carries the exception    *)
(* (or "none"), the header state the call leaves, and what went over the   *)
(* wire.                                                                   *)
(***************************************************************************)
AuthResult(exc, h, url, net) ==
    [exc |-> exc, headers |-> h, url |-> url, status |-> net.status,
     body |-> net.body]

\* A slip: the header state is reset when the call starts.
HeadersCleared(h) == EmptyDict

\* A slip: a header already set is kept (setdefault).
HeadersKeepFirst(h, access_token) ==
    IF h = EmptyDict THEN AuthHeader(access_token) ELSE h

\* The header state a failing authenticate leaves: self.headers is assigned
\* on line 98 only, after every step that can raise.
HeadersOnAuthFailure(h) == h

\* line 98: self.headers = {...}
HeadersOnAuthSuccess(h, access_token) == AuthHeader(access_token)

\* Lines 93-98, once the URL is known.
AuthExchange(h, api_url, net) ==
    LET url == api_url \o TokenPath IN
    IF net.kind = "error"
    THEN AuthResult("ConnectionError", HeadersOnAuthFailure(h), url, net)
    ELSE IF raise_for_status(net.status)
    THEN AuthResult("HTTPError", HeadersOnAuthFailure(h), url, net)
    ELSE LET j == response_json(net.body) IN
         IF j.exc # "none"
         THEN AuthResult(j.exc, HeadersOnAuthFailure(h), url, net)
         ELSE LET tok == Subscript(j.val, "access_token") IN
              IF tok.exc # "none"
              THEN AuthResult(tok.exc, HeadersOnAuthFailure(h), url, net)
              ELSE AuthResult("none", HeadersOnAuthSuccess(h, tok.val.v), url, net)

\* key is what self._load_api_key() (line 91) returned or raised.
authenticate(h, key, net) ==
    IF key.exc # "none"
    THEN AuthResult(key.exc, HeadersOnAuthFailure(h), <<>>, NoNet)
    ELSE LET u == url_from_jwt(key.val) IN
         IF u.exc # "none"
         THEN AuthResult(u.exc, HeadersOnAuthFailure(h), <<>>, NoNet)
         ELSE AuthExchange(h, u.val, net)

\* Which except clause of authenticate reports the failure (lines 100-116);
\* each of them re-raises.
authenticate_report(e) ==
    CASE e = "none" -> "none"
      [] e = "HTTPError" -> "HTTP error occurred during authentication"
      [] e \in {"ConnectionError", "RequestsJSONDecodeError"} ->
           "Request error occurred during authentication"
      [] e = "KeyError" -> "Key error"
      [] OTHER -> "An unexpected error occurred during authentication"


(***************************************************************************)
(* fetch_data.  A step result carries the exception detected (or "none"),  *)
(* whether it leaves the call (raised), the DataStore the call leaves, the *)
(* value returned, and what went over the wire.                            *)
(***************************************************************************)
FetchResult(exc, raised, ds, ret, url, net) ==
    [exc |-> exc, raised |-> raised, data_store |-> ds, ret |-> ret,
     url |-> url, status |-> net.status, body |-> net.body]

\* A slip: the payload is appended to the store, whatever it holds.
StoreFetchedAppend(ds, key, data) == Append(ds, [k |-> key, v |-> data])

\* A slip: the store is rebuilt around the new entry.
StoreFetchedAlone(ds, key, data) == <<[k |-> key, v |-> data]>>

\* A slip: the entry is created before the status check.
StoreBeforeCheck(ds, key) == DictSet(ds, key, NoJson)

\* self.data_store[key] = data
StoreFetched(ds, key, data) == DictSet(ds, key, data)

\* The DataStore a failing fetch_data leaves: the store is written only
\* after the status check and the parse of the body.
StoreOnFetchFailure(ds, key) == ds

\* The GET, the status check, the parse and the store, shared by the two
\* variants; propagate says whether the except clauses re-raise.
FetchExchange(ds, api_url, a, net, return_data, propagate) ==
    LET url == ExportUrl(api_url, a) IN
    IF net.kind = "error"
    THEN FetchResult("ConnectionError", propagate, StoreOnFetchFailure(ds, FetchKey(a)),
                     NoJson, url, net)
    ELSE IF raise_for_status(net.status)
    THEN FetchResult("HTTPError", propagate, StoreOnFetchFailure(ds, FetchKey(a)),
                     NoJson, url, net)
    ELSE LET j == response_json(net.body) IN
         IF j.exc # "none"
         THEN FetchResult(j.exc, propagate, StoreOnFetchFailure(ds, FetchKey(a)),
                          NoJson, url, net)
         ELSE FetchResult("none", FALSE, StoreFetched(ds, FetchKey(a), j.val),
                          IF return_data THEN j.val ELSE NoJson, url, net)

\* gen3_metadata_parser.py: both except clauses end with raise.
FetchReraises == TRUE

\* parser.py: both except clauses print and fall through.
OldFetchReraises == FALSE

\* fetch_data of gen3_metadata_parser.py (lines 148-175); creds is what
\* self._load_api_key() (line 149) returned or raised.
fetch_data(ds, creds, a, net, return_data) ==
    IF creds.exc # "none"
    THEN FetchResult(creds.exc, FetchReraises, StoreOnFetchFailure(ds, FetchKey(a)),
                     NoJson, <<>>, NoNet)
    ELSE LET u == url_from_jwt(creds.val) IN
         IF u.exc # "none"
         THEN FetchResult(u.exc, FetchReraises, StoreOnFetchFailure(ds, FetchKey(a)),
                          NoJson, <<>>, NoNet)
         ELSE FetchExchange(ds, u.val, a, net, return_data, FetchReraises)

\* fetch_data of parser.py (lines 28-49): the URL is the constructor's.
old_fetch_data(ds, api_url, a, net, return_data) ==
    FetchExchange(ds, api_url, a, net, return_data, OldFetchReraises)

(***************************************************************************)
(* json_to_pd: pd.json_normalize(json_data).  A table is its column names  *)
(* (field paths joined by ".") and its rows, each aligned to the columns,  *)
(* NaN where a record lacks the field.                                     *)
(***************************************************************************)
NaN == [t |-> "nan", v |-> 0]

Table(columns, rows) == [columns |-> columns, rows |-> rows]

RECURSIVE NormaliseJson(_, _, _), NormaliseItems(_, _, _, _)

\* pandas _normalise_json: depth-first over nested dicts.
NormaliseJson(data, key_string, acc) ==
    IF data.t = "obj"
    THEN NormaliseItems(data.v, 1, key_string, acc)
    ELSE DictSet(acc, key_string, data)

NormaliseItems(d, i, key_string, acc) ==
    IF i > Len(d) THEN acc
    ELSE LET new_key == IF key_string = "" THEN d[i].k
                        ELSE key_string \o "." \o d[i].k
         IN NormaliseItems(d, i + 1, key_string,
                           NormaliseJson(d[i].v, new_key, acc))

\* pandas _normalise_json_ordered: top-level scalars first, then the
\* flattened nested dicts.
NormaliseJsonOrdered(rec) ==
    LET top == SelectSeq(rec, LAMBDA e : e.v.t # "obj")
        nested == SelectSeq(rec, LAMBDA e : e.v.t = "obj")
    IN NormaliseJson(JObj(nested), "", top)

NormaliseRow(row) ==
    IF row.t = "obj" THEN NormaliseJsonOrdered(row.v) ELSE EmptyDict

RECURSIVE UnionColumns(_, _, _)

\* DataFrame(list of dicts): the columns in order of first appearance.
UnionColumns(recs, i, cols) ==
    IF i > Len(recs) THEN cols
    ELSE LET new == SelectSeq([j \in 1..Len(recs[i]) |-> recs[i][j].k],
                              LAMBDA c : \A n \in 1..Len(cols) : cols[n] # c)
         IN UnionColumns(recs, i + 1, cols \o new)

DataFrame(recs) ==
    LET cols == UnionColumns(recs, 1, <<>>) IN
    Table(cols,
          [r \in 1..Len(recs) |->
              [c \in 1..Len(cols) |->
                  IF DictHas(recs[r], cols[c])
                  THEN DictGet(recs[r], cols[c]) ELSE NaN]])

json_to_pd(json_data) ==
    CASE json_data.t = "list" ->
           Ok(DataFrame([r \in 1..Len(json_data.v) |-> NormaliseRow(json_data.v[r])]))
      [] json_data.t = "obj" ->
           Ok(DataFrame(<<NormaliseJsonOrdered(json_data.v)>>))
      [] OTHER -> Raise("NotImplementedError")

(***************************************************************************)
(* data_to_pd: the loop over self.data_store.items(), in insertion order.  *)
(* An exception leaves the loop; the entries converted before it stay.     *)
(***************************************************************************)
PdResult(exc, pd) == [exc |-> exc, data_store_pd |-> pd]

\* self.json_to_pd(value['data'])
ConvertEntry(value) ==
    LET d == Subscript(value, "data") IN
    IF d.exc # "none" THEN d ELSE json_to_pd(d.val)

\* self.data_store_pd[key] = ...
StoreTable(pd, key, table) == DictSet(pd, key, table)

RECURSIVE DataToPdFrom(_, _, _)

DataToPdFrom(ds, i, pd) ==
    IF i > Len(ds) THEN PdResult("none", pd)
    ELSE LET t == ConvertEntry(ds[i].v) IN
         IF t.exc # "none" THEN PdResult(t.exc, pd)
         ELSE DataToPdFrom(ds, i + 1, StoreTable(pd, ds[i].k, t.val))

data_to_pd(ds, pd) == DataToPdFrom(ds, 1, pd)


(***************************************************************************)
(* Inputs of the model.                                                    *)
(***************************************************************************)
\* The data commons of the tests (tests/test_gen3_metadata_parser.py:37).
TestBase ==
    <<"h", "t", "t", "p", "s", ":", "/", "/", "d", "a", "t", "a", ".",
      "t", "e", "s", "t", ".", "b", "i", "o", "c", "o", "m", "m", "o",
      "n", "s", ".", "o", "r", "g", ".", "a", "u">>

TestIssuer == TestBase \o UserSuffix

\* The access tokens the token endpoint may hand out.
Token(i) == <<"t", "o", "k", ToString(i)>>

Tokens == {Token(i) : i \in 1..NumTokens}

\* Credential files of the client runs.
StrictFile ==
    File("ok", <<LB, Lex("str", Text("api_key")), COLON,
                 Lex("str", JwtIss(TestIssuer)), COMMA,
                 Lex("str", Text("key_id")), COLON,
                 Lex("str", Text("b9042701")), RB>>)

TolerantFile ==
    File("ok", <<LB, Lex("word", Text("api_key")), COLON,
                 Lex("bare", JwtIss(TestIssuer)), RB>>)

BadQuotedFile == File("ok", <<LB, Lex("str", Text("api_key")), COLON, RB>>)

BadBareFile == File("ok", <<LB, Lex("word", Text("api_key")), COLON, RB>>)

NoApiKeyFile == File("ok", <<LB, RB>>)

NotJwtFile ==
    File("ok", <<LB, Lex("str", Text("api_key")), COLON,
                 Lex("str", Text("junk")), RB>>)

MissingFile == File("missing", <<>>)

UnreadableFile == File("unreadable", <<>>)

SampleFiles ==
    {StrictFile, TolerantFile, BadQuotedFile, BadBareFile, NoApiKeyFile,
     NotJwtFile, MissingFile}

\* What self._load_api_key() returns or raises on those files.
SampleLoads == {load_api_key(f) : f \in SampleFiles}

\* (program_name, project_code, node_label) triples; two of them differ
\* only in where the "/" falls.
FetchArgs ==
    {<<(<<"a">>), (<<"c">>), (<<"n">>)>>,
     <<(<<"a", "/", "b">>), (<<"c">>), (<<"n">>)>>,
     <<(<<"a">>), (<<"b", "/", "c">>), (<<"n">>)>>}

\* Response bodies of the export endpoint: a list holding the flat record
\* of the tests and a nested record; an object with no data field; a body
\* that is not JSON.
RecordsBody ==
    Body(TRUE, JObj(<<[k |-> "data", v |-> JList(<<
        JObj(<<[k |-> "id", v |-> JLit(1)],
               [k |-> "name", v |-> JStr(<<"t", "e", "s", "t">>)]>>),
        JObj(<<[k |-> "info", v |-> JObj(<<[k |-> "age", v |-> JLit(30)]>>)],
               [k |-> "id", v |-> JLit(2)]>>)>>)]>>))

NoDataBody ==
    Body(TRUE, JObj(<<[k |-> "message", v |-> JStr(<<"n", "o">>)]>>))

HtmlBody == Body(FALSE, NoJson)

GetBodies == {RecordsBody, NoDataBody, HtmlBody}

\* Response bodies of the token endpoint.
TokenBody(t) == Body(TRUE, JObj(<<[k |-> "access_token", v |-> JStr(t)]>>))

PostBodies ==
    {TokenBody(t) : t \in Tokens}
        \cup {Body(TRUE, JObj(EmptyDict)), Body(TRUE, JList(<<>>)), HtmlBody}

\* Statuses a final response may carry; an error response carries an
\* error page.
Statuses == {200, 300, 401, 404}

\* The credential is loaded and the URL resolved before any request: when
\* either fails no request is made and the network is not consulted.
Resolves(key) == key.exc = "none" /\ url_from_jwt(key.val).exc = "none"

NetsOf(bodies) ==
    {NetError}
        \cup {Net("response", s, b) :
                s \in {x \in Statuses : ~raise_for_status(x)}, b \in bodies}
        \cup {Net("response", s, HtmlBody) :
                s \in {x \in Statuses : raise_for_status(x)}}

PostNets == NetsOf(PostBodies)

GetNets == NetsOf(GetBodies)

(***************************************************************************)
(* The client as a state machine.  last records the call just made.        *)
(***************************************************************************)
Last(op, args, headers_before, url, status, body, exc, raised, ret) ==
    [op |-> op, args |-> args, headers_before |-> headers_before, url |-> url,
     status |-> status, body |-> body, exc |-> exc, raised |-> raised,
     ret |-> ret]

InitLast ==
    Last("__init__", <<>>, EmptyDict, <<>>, 0, NoBody, "none", FALSE, NoJson)

\* __init__ of gen3_metadata_parser.py (lines 20-23); __init__ of
\* parser.py (lines 7-11), whose _authenticate has succeeded.
Init ==
    /\ variant \in {"current", "old"}
    /\ headers \in IF variant = "current" THEN {EmptyDict}
                   ELSE {AuthHeader(t) : t \in Tokens}
    /\ data_store = EmptyDict
    /\ data_store_pd = EmptyDict
    /\ last = InitLast

Authenticate ==
    /\ variant = "current"
    /\ \E key \in SampleLoads :
       \E net \in IF Resolves(key) THEN PostNets ELSE {NoNet} :
         LET r == authenticate(headers, key, net) IN
         /\ headers' = r.headers
         /\ last' = Last("authenticate", <<>>, headers, r.url, r.status,
                         r.body, r.exc, r.exc # "none", NoJson)
    /\ UNCHANGED <<variant, data_store, data_store_pd>>

FetchData ==
    /\ variant = "current"
    /\ \E creds \in SampleLoads, a \in FetchArgs, return_data \in BOOLEAN :
       \E net \in IF Resolves(creds) THEN GetNets ELSE {NoNet} :
         LET r == fetch_data(data_store, creds, a, net, return_data) IN
         /\ data_store' = r.data_store
         /\ last' = Last("fetch_data", a, headers, r.url, r.status, r.body,
                         r.exc, r.raised, r.ret)
    /\ UNCHANGED <<variant, headers, data_store_pd>>

OldFetchData ==
    /\ variant = "old"
    /\ \E a \in FetchArgs, net \in GetNets, return_data \in BOOLEAN :
         LET r == old_fetch_data(data_store, TestBase, a, net, return_data) IN
         /\ data_store' = r.data_store
         /\ last' = Last("fetch_data", a, headers, r.url, r.status, r.body,
                         r.exc, r.raised, r.ret)
    /\ UNCHANGED <<variant, headers, data_store_pd>>

DataToPd ==
    LET r == data_to_pd(data_store, data_store_pd) IN
    /\ data_store_pd' = r.data_store_pd
    /\ last' = Last("data_to_pd", <<>>, headers, <<>>, 0, NoBody, r.exc,
                    r.exc # "none", NoJson)
    /\ UNCHANGED <<variant, headers, data_store>>

Next == Authenticate \/ FetchData \/ OldFetchData \/ DataToPd

Spec == Init /\ [][Next]_vars


(***************************************************************************)
(* The credential loader on its own: Init draws a file, LoadApiKey applies *)
(* _load_api_key to it.                                                    *)
(***************************************************************************)
SeqsUpTo(S, n) == UNION {[1..m -> S] : m \in 0..n}

LexAlphabet ==
    {LB, RB, COLON, COMMA,
     Lex("str", Text("api_key")), Lex("str", JwtIss(TestIssuer)),
     Lex("sq", Text("api_key")),
     Lex("word", Text("api_key")), Lex("lit", Text("1")),
     Lex("bare", JwtIss(TestIssuer))}

AllFiles ==
    {MissingFile, UnreadableFile}
        \cup {File("ok", c) : c \in SeqsUpTo(LexAlphabet, MaxToks)}

LoadLast(op, f, r) ==
    [op |-> op, file |-> f, exc |-> r.exc,
     report |-> load_api_key_report(r.exc), ret |-> r.val]

InitLoad ==
    /\ variant = "current"
    /\ headers = EmptyDict
    /\ data_store = EmptyDict
    /\ data_store_pd = EmptyDict
    /\ last \in {LoadLast("open", f, Ok(NoVal)) : f \in AllFiles}

LoadApiKey ==
    /\ last.op = "open"
    /\ last' = LoadLast("_load_api_key", last.file, load_api_key(last.file))
    /\ UNCHANGED <<variant, headers, data_store, data_store_pd>>

NextLoad == LoadApiKey

SpecLoad == InitLoad /\ [][NextLoad]_vars

(***************************************************************************)
(* URL resolution on its own: Init draws a credential, UrlFromJwt applies  *)
(* _url_from_jwt to it.  Issuers are concatenations of at most MaxSegs     *)
(* segments.                                                               *)
(***************************************************************************)
Segments == {UserSuffix, <<"/", "u", "s", "e">>, <<"/">>, <<"h">>, TestBase}

RECURSIVE Concat(_)

Concat(ss) == IF ss = <<>> THEN <<>> ELSE Head(ss) \o Concat(Tail(ss))

Issuers == {Concat(ss) : ss \in SeqsUpTo(Segments, MaxSegs)}

Cred(api_key) == JObj(<<[k |-> "api_key", v |-> JStr(api_key)],
                        [k |-> "key_id", v |-> JStr(Text("b9042701"))]>>)

Creds ==
    {Cred(JwtIss(iss)) : iss \in Issuers}
        \cup {Cred(JwtNoIss), Cred(Text("junk")), JObj(EmptyDict),
              JStr(Text("junk"))}

UrlLast(op, cred, r) == [op |-> op, cred |-> cred, exc |-> r.exc, ret |-> r.val]

InitUrl ==
    /\ variant = "current"
    /\ headers = EmptyDict
    /\ data_store = EmptyDict
    /\ data_store_pd = EmptyDict
    /\ last \in {UrlLast("cred", c, Ok(<<>>)) : c \in Creds}

UrlFromJwt ==
    /\ last.op = "cred"
    /\ last' = UrlLast("_url_from_jwt", last.cred, url_from_jwt(last.cred))
    /\ UNCHANGED <<variant, headers, data_store, data_store_pd>>

NextUrl == UrlFromJwt

SpecUrl == InitUrl /\ [][NextUrl]_vars


(***************************************************************************)
(* Properties.                                                             *)
(***************************************************************************)
Is2xx(status) == 200 <= status /\ status < 300

Slash == <<"/">>

\* C1: a successful fetch_data(program_name, project_code, node_label)
\* leaves the parsed body, unmodified, under the key
\* program_name/project_code/node_label; the key has one entry (an entry it
\* held is replaced, not appended to); the entries of the other keys are
\* as before.
C1_FetchStoresUnderKey ==
    [][(last'.op = "fetch_data" /\ last'.exc = "none") =>
         LET a == last'.args
             key == a[1] \o Slash \o a[2] \o Slash \o a[3]
         IN /\ DictHas(data_store', key)
            /\ DictGet(data_store', key) = last'.body.json
            /\ \A i, j \in 1..Len(data_store') :
                 data_store'[i].k = data_store'[j].k => i = j
            /\ DictKeys(data_store') = DictKeys(data_store) \cup {key}
            /\ \A k \in DictKeys(data_store) \ {key} :
                 DictGet(data_store', k) = DictGet(data_store, k)]_vars

\* A successful fetch of a key stored before another key: its entry is
\* replaced while the other key's entry stays.
C1_Witness ==
    /\ last.op = "fetch_data"
    /\ last.exc = "none"
    /\ Len(data_store) = 2
    /\ data_store[1].k = FetchKey(last.args)
    /\ data_store[1].v = last.body.json
    /\ data_store[2].v # data_store[1].v

\* C2: every fetch_data call that fails (an HTTP error status, or any
\* other failure) ends by raising to the caller, in each variant.
C2_EveryFetchFailureRaised ==
    (last.op = "fetch_data" /\ last.exc # "none") => last.raised

\* C3: a fetch_data call that fails at any step creates no DataStore entry
\* and leaves DataStore, TableStore and the header state as they were.
C3_FailedFetchChangesNothing ==
    [][(last'.op = "fetch_data" /\ last'.exc # "none") =>
         /\ data_store' = data_store
         /\ data_store_pd' = data_store_pd
         /\ headers' = headers]_vars

\* A fetch answered 404, with entries already stored and converted and
\* none for the key asked for.
C3_Witness ==
    /\ last.op = "fetch_data"
    /\ last.exc = "HTTPError"
    /\ last.status = 404
    /\ data_store # EmptyDict
    /\ data_store_pd # EmptyDict
    /\ headers # EmptyDict
    /\ ~DictHas(data_store, FetchKey(last.args))

\* C4: a successful authenticate whose response carries access_token = t
\* leaves the header state exactly {"Authorization": "bearer t"}, whatever
\* it was before; a 2xx response carrying a token to a resolved credential
\* is such a success.
C4_AuthSetsExactHeader ==
    /\ (last.op = "authenticate" /\ last.exc = "none") =>
         headers = <<[k |-> "Authorization",
                      v |-> <<"b", "e", "a", "r", "e", "r", " ">>
                              \o DictGet(last.body.json.v, "access_token").v]>>
    /\ (/\ last.op = "authenticate"
        /\ Is2xx(last.status)
        /\ last.body.parse
        /\ last.body.json.t = "obj"
        /\ DictHas(last.body.json.v, "access_token")) => last.exc = "none"

\* A successful authenticate over a different header, after a fetch.
C4_Witness ==
    /\ last.op = "authenticate"
    /\ last.exc = "none"
    /\ last.status = 200
    /\ last.headers_before # EmptyDict
    /\ last.headers_before # headers
    /\ data_store # EmptyDict

\* C5, as stated: authenticate, given a non-2xx response to its POST,
\* raises an HTTP failure and leaves the header state as it was.
C5_Non2xxAuthFails ==
    (last.op = "authenticate" /\ last.status # 0 /\ ~Is2xx(last.status)) =>
        /\ last.exc = "HTTPError"
        /\ last.raised
        /\ headers = last.headers_before

\* C5, amended: authenticate, given a 4xx or 5xx response to its POST,
\* raises an HTTP failure and leaves the header state as it was.
C5_ErrorStatusAuthFails ==
    (last.op = "authenticate" /\ 400 <= last.status /\ last.status < 600) =>
        /\ last.exc = "HTTPError"
        /\ last.raised
        /\ headers = last.headers_before

\* A 401 after a successful authenticate: its header is still there.
C5_Witness ==
    /\ last.op = "authenticate"
    /\ last.status = 401
    /\ last.exc = "HTTPError"
    /\ headers # EmptyDict
    /\ headers = last.headers_before

\* C6: every key of TableStore is a key of DataStore.
C6_TableKeysAreDataKeys ==
    \A k \in DictKeys(data_store_pd) : k \in DictKeys(data_store)

\* A key fetched and not converted, beside a converted key whose table is
\* stale: its payload was fetched again since and no longer has data.
C6_Witness ==
    /\ \E k \in DictKeys(data_store) : k \notin DictKeys(data_store_pd)
    /\ \E k \in DictKeys(data_store_pd) :
         /\ DictHas(data_store, k)
         /\ ConvertEntry(DictGet(data_store, k)).exc # "none"

\* C7: after a data_to_pd call (of the current variant) every DataStore
\* entry that has a data field has, in TableStore, the flattening of that
\* field.
C7_EveryEntryConverted ==
    (variant = "current" /\ last.op = "data_to_pd") =>
        \A i \in 1..Len(data_store) :
            LET value == data_store[i].v IN
            (value.t = "obj" /\ DictHas(value.v, "data")
                /\ json_to_pd(DictGet(value.v, "data")).exc = "none") =>
                /\ DictHas(data_store_pd, data_store[i].k)
                /\ DictGet(data_store_pd, data_store[i].k)
                     = json_to_pd(DictGet(value.v, "data")).val

\* C8: authenticate, given a 2xx response whose body is a JSON object
\* with no access_token field, raises a missing-field failure (KeyError,
\* reported by the KeyError clause).
C8_MissingTokenIsKeyError ==
    (/\ last.op = "authenticate"
     /\ Is2xx(last.status)
     /\ last.body.parse
     /\ last.body.json.t = "obj"
     /\ ~DictHas(last.body.json.v, "access_token")) =>
        /\ last.exc = "KeyError"
        /\ last.raised
        /\ authenticate_report(last.exc) = "Key error"

\* A 200 whose body is {}.
C8_Witness ==
    /\ last.op = "authenticate"
    /\ last.status = 200
    /\ last.body = Body(TRUE, JObj(EmptyDict))
    /\ last.exc = "KeyError"

\* The issuer claim of a credential whose api_key decodes; <<>> if none.
HasIssuer(cred) ==
    /\ cred.t = "obj"
    /\ DictHas(cred.v, "api_key")
    /\ DictGet(cred.v, "api_key").v.wf
    /\ DictHas(DictGet(cred.v, "api_key").v.claims, "iss")

IssuerOf(cred) == DictGet(DictGet(cred.v, "api_key").v.claims, "iss")

\* C9: URL resolution returns the issuer with one trailing "/user" removed
\* when it ends with it, the issuer itself when it does not, the empty
\* string when the token has no issuer; for the issuer
\* https://data.test.biocommons.org.au/user it returns
\* https://data.test.biocommons.org.au.
C9_UrlIsIssuerLessUserSuffix ==
    (/\ last.op = "_url_from_jwt"
     /\ last.cred.t = "obj"
     /\ DictHas(last.cred.v, "api_key")
     /\ DictGet(last.cred.v, "api_key").v.wf) =>
        /\ last.exc = "none"
        /\ IF HasIssuer(last.cred)
           THEN LET iss == IssuerOf(last.cred)
                    n == Len(iss)
                IN /\ (n >= 5 /\ SubSeq(iss, n - 4, n) = <<"/", "u", "s", "e", "r">>)
                        => last.ret \o <<"/", "u", "s", "e", "r">> = iss
                   /\ ~(n >= 5 /\ SubSeq(iss, n - 4, n) = <<"/", "u", "s", "e", "r">>)
                        => last.ret = iss
                   /\ iss = TestIssuer => last.ret = TestBase
           ELSE last.ret = <<>>

\* The issuer of the tests, resolved.
C9_Witness ==
    /\ last.op = "_url_from_jwt"
    /\ HasIssuer(last.cred)
    /\ IssuerOf(last.cred) = TestBase \o <<"/", "u", "s", "e", "r">>
    /\ last.ret = TestBase

\* C10: the loader's failures by kind: a missing file fails with
\* FileNotFoundError; content that cannot be parsed or repaired fails with
\* a decode error, with quote characters and without; another I/O failure
\* fails with a generic I/O error.
C10_LoaderFailureKinds ==
    last.op = "_load_api_key" =>
        /\ last.file.st = "missing" => last.exc = "FileNotFoundError"
        /\ last.file.st = "unreadable" => last.exc = "OSError"
        /\ (last.file.st = "ok" /\ last.exc # "none") =>
              /\ last.exc = "JSONDecodeError"
              /\ last.report = "JSON decode error"

\* C11: the key program_name/project_code/node_label is unique to its
\* triple: a successful fetch_data of one triple, directly after a
\* successful fetch_data of a different triple, writes another key, so the
\* entry of the earlier triple is still the response of that earlier fetch
\* (components holding the separator / included).
C11_OtherTripleKeepsEntry ==
    [][(/\ last.op = "fetch_data" /\ last.exc = "none"
        /\ last'.op = "fetch_data" /\ last'.exc = "none"
        /\ last'.args # last.args) =>
         LET a == last.args
             key == a[1] \o Slash \o a[2] \o Slash \o a[3]
         IN /\ DictHas(data_store', key)
            /\ DictGet(data_store', key) = last.body.json]_vars

====
